---- MODULE Spec2Model ----
(***************************************************************************)
(* A model of vibemerge: the byte-level whitespace compressor              *)
(* (vmrg.py compress_code), file discovery with ignore patterns, the       *)
(* text classifier and a byte budget (vmrg.py collect_files /              *)
(* collect_files_from_dirs, vibemerge.py collect_files), the sequential /  *)
(* parallel merge of vmrg.py merge_files, the merge of vibemerge.py        *)
(* merge_files, the state of the output path, and the exit status of       *)
(* vmrg.py main.                                                           *)
(*                                                                         *)
(* Bytes are their integer codes; byte strings are sequences of codes.     *)
(* Positions are 0-based as in the Python source: At(s, k) is s[k].        *)
(***************************************************************************)
EXTENDS Integers, Sequences, FiniteSets, TLC

VARIABLES
    \* ---- compress_code (vmrg.py 212-271)
    content_bytes,  \* the input
    ext,            \* the file extension selecting the profile
    i,              \* scan position (0-based)
    result,         \* the output bytearray
    cpc,            \* position of the scan: "scan", "string", "heredoc", "done"
    end_delim,      \* end delimiter of the string being scanned
    src,            \* src[k]: input position result[k] was copied from
    regions,        \* string literals the scan has seen: [from, to, closed]
    reg_start,      \* position of the start delimiter of the open string
    esc,            \* positions copied as the second byte of a NORMAL escape
    visited,        \* positions at which an iteration of the outer loop began
    \* ---- discovery (vmrg.py 357-452, vibemerge.py 50-80)
    prog,           \* the program that runs: "vmrg" or "vibemerge"
    patterns,       \* the loaded ignore patterns
    input_files,    \* explicit files, in command-line order
    directories,    \* directory roots, in command-line order
    kpc,            \* position of the run
    idx,            \* index of the current loop (1-based)
    vd,             \* vibemerge: index of the directory os.walk is in
    files,          \* admitted files: [fpath, basedir]
    total,          \* bytes admitted so far
    all_paths,      \* collect_files_from_dirs: the walked candidates
    valid_files,    \* collect_files_from_dirs: its admitted files
    dtotal,         \* collect_files_from_dirs: its own total
    accumulated,    \* collect_files lines 440-446
    fstat,          \* what the file system answered: path -> [size, nul]
    rejected,       \* paths turned away by a budget test
    \* ---- merge_files (vmrg.py 455-621)
    compress,       \* flag -c
    no_comment,     \* flag -d
    parallel,       \* flag -p, from the test of line 480 to the executor
    num_cpus,       \* line 479, over the same stretch; 0 before and after
    use_parallel,   \* line 480
    results,        \* parallel mode: the result buffer
    pending,        \* parallel mode: futures as_completed has not yielded yet
    out,            \* what was written to the output file, as tokens
    total_lines,    \* line 495
    compressed_size,\* line 494
    out_of_order,   \* some future completed after one of a greater index
    outcome,        \* outcome[j]: what reading and processing files[j] gave
    outfile,        \* the output path: "untouched", "dir" once its parent
                    \* directory was made, "open" once it was opened for writing
    \* ---- main (vmrg.py 661-682)
    status,         \* the exit status main returns; -1 while it runs
    interrupted     \* a KeyboardInterrupt was raised during the run

compressVars == <<content_bytes, ext, i, result, cpc, end_delim, src, regions,
                  reg_start, esc, visited>>

collectVars == <<prog, patterns, input_files, directories, kpc, idx, vd, files, total,
                 all_paths, valid_files, dtotal, accumulated, fstat, rejected>>

mergeVars == <<compress, no_comment, parallel, num_cpus, use_parallel,
               results, pending, out, total_lines, compressed_size,
               out_of_order, outcome, outfile>>

mainVars == <<status, interrupted>>

vars == <<compressVars, collectVars, mergeVars, mainVars>>

----------------------------------------------------------------------------
\* Bounds of the model

\* longest enumerated input of compress_code
MaxLen == 5

\* extensions whose profiles are scanned: triple quotes (end delimiter of 3
\* bytes), a 2-byte end delimiter, the heredoc entry with the empty end
\* delimiter, and an unknown extension (fallback profile)
Profiles == {".py", ".lua", ".php", ".txt"}

\* bytes the enumerated inputs of each profile are made of
Alphabet(e) ==
    CASE e = ".py"  -> {32, 34, 35, 92, 120}
      [] e = ".lua" -> {32, 91, 93, 92, 120}
      [] e = ".php" -> {10, 32, 60, 92, 120}
      [] OTHER      -> {32, 34, 39, 92, 120}

\* inputs longer than MaxLen, scanned in addition to the enumerated ones:
\*   x = "a  b"      .py   (the scenario of the specification)
\*   """ """         .py   (a closed triple-quoted string)
\*   "a\" "          .py   (an escaped end delimiter inside a string)
\*   "\\" "\""        .py   (an escaped backslash before the end delimiter,
\*                          then an escaped end delimiter)
\*   [[ ]] x         .lua  (a closed string with a 2-byte end delimiter)
\*   <<<x y\n z      .php  (a heredoc line)
\*   <<<x\n"y\       .php  (a heredoc line, then a string left open that
\*                          ends on a backslash)
ScenarioInput == <<120, 32, 61, 32, 34, 97, 32, 32, 98, 34>>

ExtraInputs(e) ==
    CASE e = ".py"  -> {ScenarioInput,
                        <<34, 34, 34, 32, 34, 34, 34>>,
                        <<34, 97, 92, 34, 32, 34>>,
                        <<34, 92, 92, 34, 32, 34, 92, 34, 34>>}
      [] e = ".lua" -> {<<91, 91, 32, 93, 93, 32, 120>>}
      [] e = ".php" -> {<<60, 60, 60, 120, 32, 121, 10, 32, 122>>,
                        <<60, 60, 60, 120, 10, 34, 121, 92>>}
      [] OTHER      -> {}

\* The file system of the discovery runs.  A path is the sequence of its
\* components, each component a number that stands for a name; the numbers
\* are in the order of the names, so paths order as pathlib orders them,
\* component by component.
\*     <<2>>            r            the directory root of the command line
\*     <<2, -1>>        r/.g         a hidden directory
\*     <<2, -1, 1>>     r/.g/a.py
\*     <<2, 0>>         r/.h         a hidden file
\*     <<2, 1>>         r/a.py       (also given as an explicit file)
\*     <<2, 3>>         r/s.log
\*     <<2, 4>>         r/sub        a subdirectory
\*     <<2, 4, -1>>     r/sub/.g     a hidden directory below the root
\*     <<2, 4, -1, 1>>  r/sub/.g/a.py
\*     <<2, 4, 0>>      r/sub/.h     a hidden file below the root
\*     <<2, 4, 1>>      r/sub/a.py
\*     <<3, 1>>         s.log/a.py   an explicit file outside the root
Root == <<2>>

SubDir == <<2, 4>>

\* the name of a component, as character codes
NameOf(c) ==
    CASE c = -1 -> <<46, 103>>
      [] c = 0  -> <<46, 104>>
      [] c = 1  -> <<97, 46, 112, 121>>
      [] c = 2  -> <<114>>
      [] c = 3  -> <<115, 46, 108, 111, 103>>
      [] c = 4  -> <<115, 117, 98>>

\* the directories of a directory
SubDirs(d) ==
    CASE d = Root   -> {<<2, -1>>, <<2, 4>>}
      [] d = SubDir -> {<<2, 4, -1>>}
      [] OTHER      -> {}

\* the files of a directory
DirFiles(d) ==
    CASE d = Root          -> {<<2, 0>>, <<2, 1>>, <<2, 3>>}
      [] d = SubDir        -> {<<2, 4, 0>>, <<2, 4, 1>>}
      [] d = <<2, -1>>     -> {<<2, -1, 1>>}
      [] d = <<2, 4, -1>>  -> {<<2, 4, -1, 1>>}
      [] OTHER             -> {}

ExplicitFiles == {<<2, 1>>, <<3, 1>>}

\* sizes stat may report: 0 (empty) up to one more than the per-file cap
MaxStatSize == 4

\* fpath.suffix.lower() of the files above
ExtOf(fpath) ==
    CASE fpath[Len(fpath)] = 1 -> ".py"
      [] fpath[Len(fpath)] = 3 -> ".log"
      [] OTHER                 -> ""

\* the ignore file of the command line, when one is given, as its lines:
\*     # logs        a comment
\*     *.log         a pattern on file names
\*     (blank)
\*      sub/*        a pattern on relative paths, a space before it
IgnoreFiles ==
    { << <<35, 32, 108>>, <<42, 46, 108, 111, 103>>, << >>,
         <<32, 115, 117, 98, 47, 42>> >> }

\* what read_file can return for a file: x\n and "<space> (an open string)
Contents == {<<120, 10>>, <<34, 32>>}

\* cpu_count() is between 1 and MaxCpus
MaxCpus == 2

BoundedSeqs(S, m) == UNION {[1..k -> S] : k \in 0..m}

Inputs(e) == BoundedSeqs(Alphabet(e), MaxLen) \cup ExtraInputs(e)

----------------------------------------------------------------------------
\* Byte-string helpers (Python indexing and slicing)

At(s, k) == s[k + 1]

\* s[a:b]
Slice(s, a, b) == SubSeq(s, a + 1, b)

Range(s) == {s[k] : k \in DOMAIN s}

\* positions a, a+1, ..., b-1 as a sequence
Positions(a, b) == [k \in 1..(b - a) |-> a + k - 1]

----------------------------------------------------------------------------
\* LANGUAGE_CONFIGS: extension -> ordered (start, end) delimiter pairs

LANGUAGE_CONFIGS ==
    LET DQ   == <<(<<34>>), (<<34>>)>>
        SQ   == <<(<<39>>), (<<39>>)>>
        BT   == <<(<<96>>), (<<96>>)>>
        TDQ  == <<(<<34, 34, 34>>), (<<34, 34, 34>>)>>
        TSQ  == <<(<<39, 39, 39>>), (<<39, 39, 39>>)>>
        RAWC == <<(<<82, 34, 40>>), (<<41, 34>>)>>
        ATQ  == <<(<<64, 34>>), (<<34>>)>>
        RSH  == <<(<<114, 35, 34>>), (<<34, 35>>)>>
        RSR  == <<(<<114, 34>>), (<<34>>)>>
        HERE == <<(<<60, 60, 60>>), (<< >>)>>
        PQU  == <<(<<37, 81, 123>>), (<<125>>)>>
        PQL  == <<(<<37, 113, 123>>), (<<125>>)>>
        LUA  == <<(<<91, 91>>), (<<93, 93>>)>>
        PLQ  == <<(<<113, 123>>), (<<125>>)>>
        PLQQ == <<(<<113, 113, 123>>), (<<125>>)>>
        HASH == <<(<<35>>), (<<10>>)>>
        SL   == <<(<<47, 47>>), (<<10>>)>>
        BLK  == <<(<<47, 42>>), (<<42, 47>>)>>
        DASH == <<(<<45, 45>>), (<<10>>)>>
        RBB  == <<(<<61, 98, 101, 103, 105, 110>>), (<<61, 101, 110, 100>>)>>
        VIMC == <<(<<34>>), (<<10>>)>>
        PCT  == <<(<<37>>), (<<10>>)>>
        SEMI == <<(<<59>>), (<<10>>)>>
        HSB  == <<(<<123, 45>>), (<<45, 125>>)>>
        MLB  == <<(<<40, 42>>), (<<42, 41>>)>>
        C    == <<SL, BLK>>
        P(s, c) == [strings |-> s, comments |-> c]
    IN  (".py"    :> P(<<TDQ, TSQ, DQ, SQ>>, <<HASH>>))
     @@ (".js"    :> P(<<BT, DQ, SQ>>, C))
     @@ (".ts"    :> P(<<BT, DQ, SQ>>, C))
     @@ (".jsx"   :> P(<<BT, DQ, SQ>>, C))
     @@ (".tsx"   :> P(<<BT, DQ, SQ>>, C))
     @@ (".java"  :> P(<<DQ, SQ>>, C))
     @@ (".c"     :> P(<<DQ, SQ>>, C))
     @@ (".cpp"   :> P(<<DQ, SQ, RAWC>>, C))
     @@ (".cc"    :> P(<<DQ, SQ, RAWC>>, C))
     @@ (".h"     :> P(<<DQ, SQ>>, C))
     @@ (".hpp"   :> P(<<DQ, SQ>>, C))
     @@ (".cs"    :> P(<<ATQ, DQ, SQ>>, C))
     @@ (".go"    :> P(<<BT, DQ, SQ>>, C))
     @@ (".rs"    :> P(<<RSH, RSR, DQ, SQ>>, C))
     @@ (".php"   :> P(<<HERE, DQ, SQ>>, <<SL, BLK, HASH>>))
     @@ (".rb"    :> P(<<PQU, PQL, DQ, SQ>>, <<HASH, RBB>>))
     @@ (".swift" :> P(<<TDQ, DQ>>, C))
     @@ (".kt"    :> P(<<TDQ, DQ, SQ>>, C))
     @@ (".scala" :> P(<<TDQ, DQ, SQ>>, C))
     @@ (".lua"   :> P(<<LUA, DQ, SQ>>, <<DASH>>))
     @@ (".pl"    :> P(<<PLQ, PLQQ, DQ, SQ>>, <<HASH>>))
     @@ (".r"     :> P(<<DQ, SQ>>, <<HASH>>))
     @@ (".m"     :> P(<<ATQ, DQ, SQ>>, C))
     @@ (".sql"   :> P(<<DQ, SQ>>, <<DASH, BLK>>))
     @@ (".sh"    :> P(<<DQ, SQ>>, <<HASH>>))
     @@ (".bash"  :> P(<<DQ, SQ>>, <<HASH>>))
     @@ (".vim"   :> P(<<DQ, SQ>>, <<VIMC>>))
     @@ (".dart"  :> P(<<TDQ, TSQ, DQ, SQ>>, C))
     @@ (".ex"    :> P(<<TDQ, DQ, SQ>>, <<HASH>>))
     @@ (".exs"   :> P(<<TDQ, DQ, SQ>>, <<HASH>>))
     @@ (".erl"   :> P(<<DQ>>, <<PCT>>))
     @@ (".clj"   :> P(<<DQ>>, <<SEMI>>))
     @@ (".lisp"  :> P(<<DQ>>, <<SEMI>>))
     @@ (".hs"    :> P(<<DQ>>, <<DASH, HSB>>))
     @@ (".ml"    :> P(<<DQ>>, <<MLB>>))
     @@ (".fs"    :> P(<<TDQ, DQ>>, <<SL, MLB>>))
     @@ (".nim"   :> P(<<TDQ, DQ>>, <<HASH>>))
     @@ (".cr"    :> P(<<DQ, SQ>>, <<HASH>>))
     @@ (".v"     :> P(<<DQ, SQ>>, C))
     @@ (".zig"   :> P(<<DQ>>, <<SL>>))

\* config = LANGUAGE_CONFIGS.get(ext, <fallback profile>)
config(e) ==
    IF e \in DOMAIN LANGUAGE_CONFIGS
    THEN LANGUAGE_CONFIGS[e]
    ELSE [strings |-> << <<(<<34>>), (<<34>>)>>, <<(<<39>>), (<<39>>)>> >>,
          comments |-> << >>]

\* faulty variant: the space is missing from the whitespace set
whitespace_NoSpace == {9, 10, 13}

\* whitespace = frozenset([32, 9, 10, 13])
whitespace == {32, 9, 10, 13}

----------------------------------------------------------------------------
\* compress_code, one action per loop iteration

n == Len(content_bytes)

ch == At(content_bytes, i)

\* p + delim_len <= n and c[p:p+delim_len] == delim
MatchAt(c, delim, p) ==
    /\ p + Len(delim) <= Len(c)
    /\ Slice(c, p, p + Len(delim)) = delim

\* i + delim_len <= n and content_bytes[i:i+delim_len] == delim
Matches(delim, k) == MatchAt(content_bytes, delim, k)

\* faulty variant: a backslash is a byte like any other
IsEscape_Never(k) == FALSE

\* ch == 92 and i + 1 < n
IsEscape(k) == At(content_bytes, k) = 92 /\ k + 1 < n

\* indexes of config['strings'] whose start delimiter matches at position k
MatchingStrings(k) ==
    {d \in DOMAIN config(ext).strings : Matches(config(ext).strings[d][1], k)}

\* faulty variant: the loop goes on after a match and the last pair wins
FirstMatch_Last(k) ==
    CHOOSE d \in MatchingStrings(k) : \A e \in MatchingStrings(k) : d >= e

\* the for loop takes the first pair, in table order, that matches
FirstMatch(k) ==
    CHOOSE d \in MatchingStrings(k) : \A e \in MatchingStrings(k) : d <= e

\* while i + end_len <= n
StringLoopCond == i + Len(end_delim) <= n

\* while i < n and content_bytes[i] not in (10, 13)
HeredocLoopCond == i < n /\ ch \notin {10, 13}

\* faulty variant: the whitespace filter is applied to every copied byte
Copy_DropWs(ps) ==
    LET keep == SelectSeq(ps, LAMBDA q : At(content_bytes, q) \notin whitespace)
    IN  /\ result' = result \o [k \in DOMAIN keep |-> At(content_bytes, keep[k])]
        /\ src' = src \o keep

\* result.append(content_bytes[k]) for the positions of ps, in order
Copy(ps) ==
    /\ result' = result \o [k \in DOMAIN ps |-> At(content_bytes, ps[k])]
    /\ src' = src \o ps

\* faulty variant: the backslash is copied alone and the scan advances one
Escape_One ==
    /\ cpc = "scan" /\ i < n
    /\ IsEscape(i)
    /\ Copy(<<i>>)
    /\ visited' = visited \cup {i}
    /\ i' = i + 1
    /\ UNCHANGED <<content_bytes, ext, cpc, end_delim, regions, reg_start, esc>>
    /\ UNCHANGED <<collectVars, mergeVars, mainVars>>

\* lines 223-227: a backslash with a next byte, outside any string
Escape ==
    /\ cpc = "scan" /\ i < n
    /\ IsEscape(i)
    /\ Copy(<<i, i + 1>>)
    /\ esc' = esc \cup {i + 1}
    /\ visited' = visited \cup {i}
    /\ i' = i + 2
    /\ UNCHANGED <<content_bytes, ext, cpc, end_delim, regions, reg_start>>
    /\ UNCHANGED <<collectVars, mergeVars, mainVars>>

\* lines 229-238: the first start delimiter that matches opens a string
StringOpen ==
    /\ cpc = "scan" /\ i < n
    /\ ~IsEscape(i)
    /\ MatchingStrings(i) # {}
    /\ LET pair == config(ext).strings[FirstMatch(i)]
           delim_len == Len(pair[1])
       IN  /\ result' = result \o pair[1]
           /\ src' = src \o Positions(i, i + delim_len)
           /\ i' = i + delim_len
           /\ end_delim' = pair[2]
           /\ cpc' = IF pair[2] = << >> THEN "heredoc" ELSE "string"
    /\ reg_start' = i
    /\ visited' = visited \cup {i}
    /\ UNCHANGED <<content_bytes, ext, regions, esc>>
    /\ UNCHANGED <<collectVars, mergeVars, mainVars>>

\* faulty variant: the heredoc loop copies the byte and stays on it
HeredocCopy_NoAdvance ==
    /\ cpc = "heredoc"
    /\ HeredocLoopCond
    /\ Copy(<<i>>)
    /\ UNCHANGED <<content_bytes, ext, i, cpc, end_delim, regions, reg_start,
                   esc, visited>>
    /\ UNCHANGED <<collectVars, mergeVars, mainVars>>

\* lines 239-241: an empty end delimiter copies up to the line break
HeredocCopy ==
    /\ cpc = "heredoc"
    /\ HeredocLoopCond
    /\ Copy(<<i>>)
    /\ i' = i + 1
    /\ UNCHANGED <<content_bytes, ext, cpc, end_delim, regions, reg_start,
                   esc, visited>>
    /\ UNCHANGED <<collectVars, mergeVars, mainVars>>

\* line 239 false, then 258-262: back to the outer loop
HeredocExit ==
    /\ cpc = "heredoc"
    /\ ~HeredocLoopCond
    /\ regions' = regions \cup
                    {[from |-> reg_start, to |-> i - 1, closed |-> TRUE]}
    /\ cpc' = "scan"
    /\ UNCHANGED <<content_bytes, ext, i, result, end_delim, src, reg_start,
                   esc, visited>>
    /\ UNCHANGED <<collectVars, mergeVars, mainVars>>

\* lines 244-247: the end delimiter closes the string
StringClose ==
    /\ cpc = "string"
    /\ StringLoopCond
    /\ Slice(content_bytes, i, i + Len(end_delim)) = end_delim
    /\ result' = result \o end_delim
    /\ src' = src \o Positions(i, i + Len(end_delim))
    /\ i' = i + Len(end_delim)
    /\ regions' = regions \cup
          {[from |-> reg_start, to |-> i + Len(end_delim) - 1, closed |-> TRUE]}
    /\ cpc' = "scan"
    /\ UNCHANGED <<content_bytes, ext, end_delim, reg_start, esc, visited>>
    /\ UNCHANGED <<collectVars, mergeVars, mainVars>>

\* lines 249-253: a backslash with a next byte, inside a string
StringEscape ==
    /\ cpc = "string"
    /\ StringLoopCond
    /\ Slice(content_bytes, i, i + Len(end_delim)) # end_delim
    /\ IsEscape(i)
    /\ Copy(<<i, i + 1>>)
    /\ i' = i + 2
    /\ UNCHANGED <<content_bytes, ext, cpc, end_delim, regions, reg_start,
                   esc, visited>>
    /\ UNCHANGED <<collectVars, mergeVars, mainVars>>

\* lines 255-256: any other byte of a string
StringCopy ==
    /\ cpc = "string"
    /\ StringLoopCond
    /\ Slice(content_bytes, i, i + Len(end_delim)) # end_delim
    /\ ~IsEscape(i)
    /\ Copy(<<i>>)
    /\ i' = i + 1
    /\ UNCHANGED <<content_bytes, ext, cpc, end_delim, regions, reg_start,
                   esc, visited>>
    /\ UNCHANGED <<collectVars, mergeVars, mainVars>>

\* line 243 false, then 258-262: the string loop ends without its end
\* delimiter and the scan goes back to the outer loop at position i
StringExit ==
    /\ cpc = "string"
    /\ ~StringLoopCond
    /\ regions' = regions \cup
                    {[from |-> reg_start, to |-> n - 1, closed |-> FALSE]}
    /\ cpc' = "scan"
    /\ UNCHANGED <<content_bytes, ext, i, result, end_delim, src, reg_start,
                   esc, visited>>
    /\ UNCHANGED <<collectVars, mergeVars, mainVars>>

\* lines 264-266: whitespace outside a string is dropped
DropWhitespace ==
    /\ cpc = "scan" /\ i < n
    /\ ~IsEscape(i)
    /\ MatchingStrings(i) = {}
    /\ ch \in whitespace
    /\ i' = i + 1
    /\ visited' = visited \cup {i}
    /\ UNCHANGED <<content_bytes, ext, result, cpc, end_delim, src, regions,
                   reg_start, esc>>
    /\ UNCHANGED <<collectVars, mergeVars, mainVars>>

\* faulty variant: the byte is skipped without being appended
CopyByte_NoAppend ==
    /\ cpc = "scan" /\ i < n
    /\ ~IsEscape(i)
    /\ MatchingStrings(i) = {}
    /\ ch \notin whitespace
    /\ i' = i + 1
    /\ visited' = visited \cup {i}
    /\ UNCHANGED <<content_bytes, ext, result, cpc, end_delim, src, regions,
                   reg_start, esc>>
    /\ UNCHANGED <<collectVars, mergeVars, mainVars>>

\* lines 268-269: any other byte is copied
CopyByte ==
    /\ cpc = "scan" /\ i < n
    /\ ~IsEscape(i)
    /\ MatchingStrings(i) = {}
    /\ ch \notin whitespace
    /\ Copy(<<i>>)
    /\ i' = i + 1
    /\ visited' = visited \cup {i}
    /\ UNCHANGED <<content_bytes, ext, cpc, end_delim, regions, reg_start, esc>>
    /\ UNCHANGED <<collectVars, mergeVars, mainVars>>

\* line 220 false, line 271: return bytes(result)
Return ==
    /\ cpc = "scan" /\ i >= n
    /\ cpc' = "done"
    /\ UNCHANGED <<content_bytes, ext, i, result, end_delim, src, regions,
                   reg_start, esc, visited>>
    /\ UNCHANGED <<collectVars, mergeVars, mainVars>>



----------------------------------------------------------------------------
\* Discovery: vmrg.py collect_files, collect_files_from_dirs and vibemerge.py
\* collect_files.  File sizes are counted in a unit that lets a handful of
\* files exhaust the budget: the two limits keep their order
\* (MAX_FILE_SIZE < MAX_TOTAL_SIZE) and the code's arithmetic on them.

\* MAX_FILE_SIZE = 10 * 1024 * 1024
MAX_FILE_SIZE == 3

\* MAX_TOTAL_SIZE = 1024 * 1024 * 1024
MAX_TOTAL_SIZE == 4

\* vibemerge.py is_text_file: size > 10485760
VIBE_MAX_FILE == 3

\* vibemerge.py collect_files: max_size = 1073741824
max_size == 4

\* What the file system answers for a file.  Sizes are in the unit of the
\* budget; small says that st_size is below 1024 bytes (such a file has at
\* most the size 1); nul is the place of the first null byte: none, within
\* the first 1 KiB ("1k"), after it within the first 8 KiB ("8k"), or after
\* that ("later").  err: stat or open raises, or the path is not a regular
\* file.  The files with a null byte are taken of size 1, the files over
\* the cap without one.
NulPlaces == {"none", "1k", "8k", "later"}

StatError == [err |-> TRUE, size |-> 0, small |-> TRUE, nul |-> "none"]

StatValues ==
    {StatError} \cup
    {st \in [err : {FALSE}, size : 0 .. MaxStatSize, small : BOOLEAN,
             nul : NulPlaces] :
        /\ st.size = 0 => (st.small /\ st.nul = "none")
        /\ st.small => (st.size <= 1 /\ st.nul \in {"none", "1k"})
        /\ st.nul # "none" => st.size = 1}

\* the answer for path p: the file system's earlier answer if it gave one
StatOf(p, s) == IF p \in DOMAIN fstat THEN fstat[p] ELSE s

\* pathlib's order on paths: component by component, a prefix first
PathLess(p, q) ==
    \E j \in 1 .. Len(p) + 1 :
        /\ j <= Len(q)
        /\ \A m \in 1 .. j - 1 : p[m] = q[m]
        /\ (j = Len(p) + 1 \/ p[j] < q[j])

\* faulty variant: no sort
sorted_Unsorted(s) == s

\* sorted(files, key=lambda x: x[0]): a stable sort on fpath
RECURSIVE sorted(_)
sorted(s) ==
    IF s = << >> THEN << >>
    ELSE LET x    == Head(s)
             t    == sorted(Tail(s))
             ge   == {j \in DOMAIN t : ~PathLess(t[j].fpath, x.fpath)}
             at   == IF ge = {} THEN Len(t) + 1
                     ELSE CHOOSE j \in ge : \A m \in ge : j <= m
         IN  SubSeq(t, 1, at - 1) \o <<x>> \o SubSeq(t, at, Len(t))

\* vmrg.py is_text: a file below 1024 bytes is read whole, of any other the
\* first 8192 bytes are sampled
is_text(st) ==
    IF st.err THEN FALSE
    ELSE IF st.size = 0 \/ st.size > MAX_FILE_SIZE THEN FALSE
    ELSE IF st.small THEN st.nul = "none"
    ELSE st.nul \notin {"1k", "8k"}

\* vibemerge.py is_text_file: chunk = f.read(min(size, 1024))
is_text_file(st) ==
    IF st.err THEN FALSE
    ELSE IF st.size = 0 \/ st.size > VIBE_MAX_FILE THEN FALSE
    ELSE st.nul # "1k"

\* name.startswith('.')
startswith_dot(name) == name # << >> /\ name[1] = 46

\* filepath.name
Name(fpath) == NameOf(fpath[Len(fpath)])

\* str(filepath.relative_to(basedir)): the names below basedir, joined by /
RECURSIVE Join(_)
Join(cs) ==
    IF cs = << >> THEN << >>
    ELSE IF Len(cs) = 1 THEN NameOf(cs[1])
    ELSE NameOf(cs[1]) \o <<47>> \o Join(Tail(cs))

Rel(fpath, basedir) == Join(SubSeq(fpath, Len(basedir) + 1, Len(fpath)))

\* fnmatch(name, pat) for patterns of literal characters, * and ?
RECURSIVE fnmatch(_, _)
fnmatch(name, pat) ==
    IF pat = << >> THEN name = << >>
    ELSE IF Head(pat) = 42
    THEN \/ fnmatch(name, Tail(pat))
         \/ name # << >> /\ fnmatch(Tail(name), pat)
    ELSE IF Head(pat) = 63
    THEN name # << >> /\ fnmatch(Tail(name), Tail(pat))
    ELSE /\ name # << >>
         /\ Head(name) = Head(pat)
         /\ fnmatch(Tail(name), Tail(pat))

\* str.strip()
RECURSIVE strip(_)
strip(line) ==
    IF line # << >> /\ Head(line) \in {9, 10, 13, 32} THEN strip(Tail(line))
    ELSE IF line # << >> /\ line[Len(line)] \in {9, 10, 13, 32}
    THEN strip(SubSeq(line, 1, Len(line) - 1))
    ELSE line

\* vmrg.py load_patterns, vibemerge.py load_ignore_patterns: the stripped
\* lines that are neither empty nor comments
load_patterns(lines) ==
    SelectSeq([j \in DOMAIN lines |-> strip(lines[j])],
              LAMBDA line : line # << >> /\ line[1] # 35)

\* faulty variant: only the file name is matched
should_ignore_NameOnly(filepath, basedir, pats) ==
    \E j \in DOMAIN pats : fnmatch(Name(filepath), pats[j])

\* should_ignore: the file name or the relative path matches a pattern
should_ignore(filepath, basedir, pats) ==
    IF pats = << >> THEN FALSE
    ELSE \E j \in DOMAIN pats :
            \/ fnmatch(Name(filepath), pats[j])
            \/ fnmatch(Rel(filepath, basedir), pats[j])

\* the members of the set S of paths, in path order
RECURSIVE SortedPaths(_)
SortedPaths(S) ==
    IF S = {} THEN << >>
    ELSE LET m == CHOOSE x \in S : \A y \in S : x = y \/ PathLess(x, y)
         IN  <<m>> \o SortedPaths(S \ {m})

\* faulty variant: hidden directories are pruned in the root only
PrunedDirs_RootOnly(d) ==
    IF d = Root THEN {sd \in SubDirs(d) : ~startswith_dot(Name(sd))}
    ELSE SubDirs(d)

\* dirs[:] = [d for d in dirs if not d.startswith('.')]
PrunedDirs(d) == {sd \in SubDirs(d) : ~startswith_dot(Name(sd))}

\* os.walk(directory), top down: the directories it yields, in order (the
\* directories of one directory are taken in path order)
RECURSIVE os_walk(_)
os_walk(d) ==
    LET RECURSIVE Each(_)
        Each(ds) == IF ds = << >> THEN << >>
                    ELSE os_walk(Head(ds)) \o Each(Tail(ds))
    IN  <<d>> \o Each(SortedPaths(PrunedDirs(d)))

\* lines 363-364: the file names of a directory that do not start with '.'
VisibleFiles(d) == {f \in DirFiles(d) : ~startswith_dot(Name(f))}

\* the orders in which a list of the set S can come
Perms(S) ==
    {q \in [1 .. Cardinality(S) -> S] : \A a, b \in DOMAIN q : q[a] = q[b] => a = b}

\* the lists made of one order of the files of each directory of ds
RECURSIVE FileOrders(_)
FileOrders(ds) ==
    IF ds = << >> THEN {<< >>}
    ELSE {fs \o rest : fs \in Perms(VisibleFiles(Head(ds))),
                       rest \in FileOrders(Tail(ds))}

\* lines 360-365: the candidates of the walk; the file names of a directory
\* come in the order the file system lists them
WalkOrders ==
    {[j \in DOMAIN q |-> [fpath |-> q[j], basedir |-> Root]] :
        q \in FileOrders(os_walk(Root))}

\* vibemerge.py lines 55-58: the directories in os.walk order, the file
\* names of each directory sorted
VWalk ==
    [j \in DOMAIN os_walk(Root) |-> SortedPaths(DirFiles(os_walk(Root)[j]))]

\* the file system answers for p (and keeps answering the same)
Remember(p, st) == fstat' = (p :> st) @@ fstat

\* lines 413-431: one iteration over the explicit files
ValidateFile ==
    /\ prog = "vmrg" /\ kpc = "validate"
    /\ idx <= Len(input_files)
    /\ \E s \in StatValues :
        LET fpath == input_files[idx]
            st    == StatOf(fpath, s)
        IN  /\ Remember(fpath, st)
            /\ IF ~is_text(st)
               THEN /\ idx' = idx + 1
                    /\ UNCHANGED <<kpc, files, total, rejected>>
               ELSE IF total + st.size > MAX_TOTAL_SIZE
               THEN /\ kpc' = "dirs"
                    /\ rejected' = rejected \cup {fpath}
                    /\ UNCHANGED <<idx, files, total>>
               ELSE /\ total' = total + st.size
                    /\ files' = Append(files, [fpath |-> fpath,
                                   basedir |-> SubSeq(fpath, 1, Len(fpath) - 1)])
                    /\ idx' = idx + 1
                    /\ UNCHANGED <<kpc, rejected>>
    /\ UNCHANGED <<patterns, prog, input_files, directories, vd, all_paths, valid_files,
                   dtotal, accumulated>>
    /\ UNCHANGED <<compressVars, mergeVars, mainVars>>

\* the loop of line 413 ends
ValidateEnd ==
    /\ prog = "vmrg" /\ kpc = "validate"
    /\ idx > Len(input_files)
    /\ kpc' = "dirs"
    /\ UNCHANGED <<patterns, prog, input_files, directories, idx, vd, files, total,
                   all_paths, valid_files, dtotal, accumulated, fstat, rejected>>
    /\ UNCHANGED <<compressVars, mergeVars, mainVars>>

\* line 435 false: no directory was given
NoDirectories ==
    /\ prog = "vmrg" /\ kpc = "dirs"
    /\ directories = << >>
    /\ kpc' = "sort"
    /\ UNCHANGED <<patterns, prog, input_files, directories, idx, vd, files, total,
                   all_paths, valid_files, dtotal, accumulated, fstat, rejected>>
    /\ UNCHANGED <<compressVars, mergeVars, mainVars>>

\* lines 358-376: the walk of the directories
Walk ==
    /\ prog = "vmrg" /\ kpc = "dirs"
    /\ directories # << >>
    /\ all_paths' \in WalkOrders
    /\ valid_files' = << >>
    /\ dtotal' = 0
    /\ idx' = 1
    /\ kpc' = "scan"
    /\ UNCHANGED <<patterns, prog, input_files, directories, vd, files, total,
                   accumulated, fstat, rejected>>
    /\ UNCHANGED <<compressVars, mergeVars, mainVars>>

\* lines 378-398: one iteration over the walked candidates
ScanFile ==
    /\ prog = "vmrg" /\ kpc = "scan"
    /\ idx <= Len(all_paths)
    /\ LET fpath == all_paths[idx].fpath
       IN  IF should_ignore(fpath, all_paths[idx].basedir, patterns)
           THEN /\ idx' = idx + 1
                /\ UNCHANGED <<kpc, valid_files, dtotal, rejected, fstat>>
           ELSE \E s \in StatValues :
                  LET st == StatOf(fpath, s)
                  IN  /\ Remember(fpath, st)
                      /\ IF ~is_text(st)
                         THEN /\ idx' = idx + 1
                              /\ UNCHANGED <<kpc, valid_files, dtotal, rejected>>
                         ELSE IF dtotal + st.size > MAX_TOTAL_SIZE
                         THEN /\ kpc' = "combine"
                              /\ rejected' = rejected \cup {fpath}
                              /\ UNCHANGED <<idx, valid_files, dtotal>>
                         ELSE /\ dtotal' = dtotal + st.size
                              /\ valid_files' = Append(valid_files, all_paths[idx])
                              /\ idx' = idx + 1
                              /\ UNCHANGED <<kpc, rejected>>
    /\ UNCHANGED <<patterns, prog, input_files, directories, vd, files, total,
                   all_paths, accumulated>>
    /\ UNCHANGED <<compressVars, mergeVars, mainVars>>

\* the loop of line 378 ends; lines 400-401
ScanEnd ==
    /\ prog = "vmrg" /\ kpc = "scan"
    /\ idx > Len(all_paths)
    /\ kpc' = "combine"
    /\ UNCHANGED <<patterns, prog, input_files, directories, idx, vd, files, total,
                   all_paths, valid_files, dtotal, accumulated, fstat, rejected>>
    /\ UNCHANGED <<compressVars, mergeVars, mainVars>>

\* faulty variant: the directory files are always taken whole
Combine_NoTrim ==
    /\ prog = "vmrg" /\ kpc = "combine"
    /\ files' = files \o valid_files
    /\ total' = total + dtotal
    /\ kpc' = "sort"
    /\ UNCHANGED <<patterns, prog, input_files, directories, idx, vd, all_paths,
                   valid_files, dtotal, accumulated, fstat, rejected>>
    /\ UNCHANGED <<compressVars, mergeVars, mainVars>>

\* lines 436-440 and 448-450: the directory files join the explicit ones
Combine ==
    /\ prog = "vmrg" /\ kpc = "combine"
    /\ IF total + dtotal > MAX_TOTAL_SIZE
       THEN /\ accumulated' = 0
            /\ idx' = 1
            /\ kpc' = "trim"
            /\ UNCHANGED <<files, total>>
       ELSE /\ files' = files \o valid_files
            /\ total' = total + dtotal
            /\ kpc' = "sort"
            /\ UNCHANGED <<accumulated, idx>>
    /\ UNCHANGED <<patterns, prog, input_files, directories, vd, all_paths, valid_files,
                   dtotal, fstat, rejected>>
    /\ UNCHANGED <<compressVars, mergeVars, mainVars>>

\* lines 441-447: one iteration over the directory files, against what the
\* explicit files left of the budget; the loop is left by its break or at
\* the end of the list
TrimFile ==
    /\ prog = "vmrg" /\ kpc = "trim"
    /\ IF idx > Len(valid_files)
       THEN /\ total' = total + accumulated
            /\ kpc' = "sort"
            /\ UNCHANGED <<files, accumulated, idx, rejected>>
       ELSE LET fpath     == valid_files[idx].fpath
                fsize     == fstat[fpath].size
                remaining == MAX_TOTAL_SIZE - total
            IN  IF accumulated + fsize > remaining
                THEN /\ total' = total + accumulated
                     /\ kpc' = "sort"
                     /\ rejected' = rejected \cup {fpath}
                     /\ UNCHANGED <<files, accumulated, idx>>
                ELSE /\ files' = Append(files, valid_files[idx])
                     /\ accumulated' = accumulated + fsize
                     /\ idx' = idx + 1
                     /\ UNCHANGED <<total, kpc, rejected>>
    /\ UNCHANGED <<patterns, prog, input_files, directories, vd, all_paths, valid_files,
                   dtotal, fstat>>
    /\ UNCHANGED <<compressVars, mergeVars, mainVars>>

\* line 452: return sorted(files, key=lambda x: x[0]), total
SortReturn ==
    /\ prog = "vmrg" /\ kpc = "sort"
    /\ files' = sorted(files)
    /\ kpc' = "returned"
    /\ UNCHANGED <<patterns, prog, input_files, directories, idx, vd, total, all_paths,
                   valid_files, dtotal, accumulated, fstat, rejected>>
    /\ UNCHANGED <<compressVars, mergeVars, mainVars>>

\* vibemerge.py lines 58-78: one iteration over the sorted file names of the
\* directory os.walk is in; the break of line 75 leaves this directory only
VFile ==
    /\ prog = "vibemerge" /\ kpc = "vwalk"
    /\ vd <= Len(VWalk)
    /\ idx <= Len(VWalk[vd])
    /\ LET file_path == VWalk[vd][idx]
       IN  IF \/ startswith_dot(Name(file_path))
              \/ should_ignore(file_path, Root, patterns)
           THEN /\ idx' = idx + 1
                /\ UNCHANGED <<vd, files, total, rejected, fstat>>
           ELSE \E s \in StatValues :
                  LET st == StatOf(file_path, s)
                  IN  /\ Remember(file_path, st)
                      /\ IF ~is_text_file(st)
                         THEN /\ idx' = idx + 1
                              /\ UNCHANGED <<vd, files, total, rejected>>
                         ELSE IF total + st.size > max_size
                         THEN /\ vd' = vd + 1
                              /\ idx' = 1
                              /\ rejected' = rejected \cup {file_path}
                              /\ UNCHANGED <<files, total>>
                         ELSE /\ total' = total + st.size
                              /\ files' = Append(files, [fpath |-> file_path,
                                                         basedir |-> Root])
                              /\ idx' = idx + 1
                              /\ UNCHANGED <<vd, rejected>>
    /\ UNCHANGED <<patterns, prog, input_files, directories, kpc, all_paths,
                   valid_files, dtotal, accumulated>>
    /\ UNCHANGED <<compressVars, mergeVars, mainVars>>

\* the loop of line 58 ends: os.walk goes to the next directory
VDirEnd ==
    /\ prog = "vibemerge" /\ kpc = "vwalk"
    /\ vd <= Len(VWalk)
    /\ idx > Len(VWalk[vd])
    /\ vd' = vd + 1
    /\ idx' = 1
    /\ UNCHANGED <<patterns, prog, input_files, directories, kpc, files, total,
                   all_paths, valid_files, dtotal, accumulated, fstat, rejected>>
    /\ UNCHANGED <<compressVars, mergeVars, mainVars>>

\* vibemerge.py line 80: return sorted(files), total_size
VReturn ==
    /\ prog = "vibemerge" /\ kpc = "vwalk"
    /\ vd > Len(VWalk)
    /\ files' = sorted(files)
    /\ kpc' = "returned"
    /\ UNCHANGED <<patterns, prog, input_files, directories, idx, vd, total, all_paths,
                   valid_files, dtotal, accumulated, fstat, rejected>>
    /\ UNCHANGED <<compressVars, mergeVars, mainVars>>

----------------------------------------------------------------------------
\* compress_code as a function, for the callers of lines 306 and 581

\* indexes of config['strings'] whose start delimiter matches c at p
StringStarts(c, e, p) ==
    {d \in DOMAIN config(e).strings : MatchAt(c, config(e).strings[d][1], p)}

\* lines 239-241
RECURSIVE HeredocBody(_, _, _)
HeredocBody(c, p, acc) ==
    IF p < Len(c) /\ At(c, p) \notin {10, 13}
    THEN HeredocBody(c, p + 1, Append(acc, At(c, p)))
    ELSE [pos |-> p, bytes |-> acc]

\* lines 243-256
RECURSIVE StringBody(_, _, _, _)
StringBody(c, ed, p, acc) ==
    IF p + Len(ed) <= Len(c)
    THEN IF Slice(c, p, p + Len(ed)) = ed
         THEN [pos |-> p + Len(ed), bytes |-> acc \o ed]
         ELSE IF At(c, p) = 92 /\ p + 1 < Len(c)
         THEN StringBody(c, ed, p + 2, acc \o <<At(c, p), At(c, p + 1)>>)
         ELSE StringBody(c, ed, p + 1, Append(acc, At(c, p)))
    ELSE [pos |-> p, bytes |-> acc]

\* lines 220-269
RECURSIVE ScanFrom(_, _, _, _)
ScanFrom(c, e, p, acc) ==
    IF p >= Len(c) THEN acc
    ELSE IF At(c, p) = 92 /\ p + 1 < Len(c)
    THEN ScanFrom(c, e, p + 2, acc \o <<At(c, p), At(c, p + 1)>>)
    ELSE IF StringStarts(c, e, p) # {}
    THEN LET d    == CHOOSE a \in StringStarts(c, e, p) :
                        \A b \in StringStarts(c, e, p) : a <= b
             pair == config(e).strings[d]
             q    == p + Len(pair[1])
             body == IF pair[2] = << >>
                     THEN HeredocBody(c, q, acc \o pair[1])
                     ELSE StringBody(c, pair[2], q, acc \o pair[1])
         IN  ScanFrom(c, e, body.pos, body.bytes)
    ELSE IF At(c, p) \in whitespace
    THEN ScanFrom(c, e, p + 1, acc)
    ELSE ScanFrom(c, e, p + 1, Append(acc, At(c, p)))

compress_code(c, e) == ScanFrom(c, e, 0, << >>)

----------------------------------------------------------------------------
\* merge_files of vmrg.py.  The output file is the sequence of the pieces
\* written to it:
\*   [t |-> "banner", b]   a directive banner (lines 499-507, 510-516)
\*   [t |-> "dash"]        a line of 80 dashes, with its line break
\*   [t |-> "file", rel]   the line FILE: <rel>, with its line break
\*                         (of: the full path of the file, not written)
\*   [t |-> "nl"]          one line break
\*   [t |-> "text", s]     the characters s

\* MIN_PARALLEL_FILES = 4
MIN_PARALLEL_FILES == 4

Dash == [t |-> "dash"]

Nl == [t |-> "nl"]

FileLine(f) ==
    [t |-> "file",
     rel |-> IF SubSeq(f.fpath, 1, Len(f.basedir)) = f.basedir
             THEN SubSeq(f.fpath, Len(f.basedir) + 1, Len(f.fpath))
             ELSE <<f.fpath[Len(f.fpath)]>>,
     of |-> f.fpath]

\* out.write(s)
Text(s) == IF s = << >> THEN << >> ELSE <<[t |-> "text", s |-> s]>>

\* bytes.decode('utf-8'), falling back to errors='replace': the modelled
\* contents are ASCII; a byte over 127 stands alone and becomes U+FFFD
Decode(bs) == [j \in DOMAIN bs |-> IF bs[j] < 128 THEN bs[j] ELSE 65533]

\* the characters str.rstrip() removes (ASCII and Latin-1)
StripChars == {9, 10, 11, 12, 13, 28, 29, 30, 31, 32, 133, 160}

\* str.rstrip()
RECURSIVE rstrip(_)
rstrip(s) ==
    IF s # << >> /\ s[Len(s)] \in StripChars
    THEN rstrip(SubSeq(s, 1, Len(s) - 1))
    ELSE s

\* str.count('\n') + 1
Lines(s) == Cardinality({j \in DOMAIN s : s[j] = 10}) + 1

\* a slot of the result buffer that holds None
None == [ok |-> FALSE]

\* lines 303-332: what process_file_worker returns for content_bytes
WorkerResult(f, content) ==
    LET processed == IF compress THEN compress_code(content, ExtOf(f.fpath))
                     ELSE content
        content_str == Decode(processed)
    IN  [ok |-> TRUE,
         content |-> content_str,
         header |-> <<Dash, FileLine(f), Dash, Nl>>,
         lines |-> Lines(content_str),
         size |-> Len(content),
         compressed_size |-> IF compress THEN Len(processed) ELSE 0]

\* faulty variant: the result is stored in the order of completion
StoreResult_Append(res, j, r) ==
    LET filled == {m \in DOMAIN res : res[m].ok}
        slot   == Cardinality(filled) + 1
    IN  [res EXCEPT ![slot] = r]

\* line 532: results[idx] = result
StoreResult(res, j, r) == [res EXCEPT ![j] = r]

\* faulty variant: the test for an empty list comes after the output was
\* opened
NoFilesFound_AfterOpen ==
    /\ prog = "vmrg" /\ kpc = "returned"
    /\ files = << >>
    /\ kpc' = "error"
    /\ outfile' = "open"
    /\ UNCHANGED <<patterns, prog, input_files, directories, idx, vd, files, total,
                   all_paths, valid_files, dtotal, accumulated, fstat, rejected>>
    /\ UNCHANGED <<compress, no_comment, parallel, num_cpus, use_parallel,
                   results, pending, out, total_lines, compressed_size,
                   out_of_order, outcome>>
    /\ UNCHANGED <<compressVars, mainVars>>

\* lines 469-470: raise ValueError("No valid files found")
NoFilesFound ==
    /\ prog = "vmrg" /\ kpc = "returned"
    /\ files = << >>
    /\ kpc' = "error"
    /\ UNCHANGED <<patterns, prog, input_files, directories, idx, vd, files, total,
                   all_paths, valid_files, dtotal, accumulated, fstat, rejected>>
    /\ UNCHANGED mergeVars
    /\ UNCHANGED <<compressVars, mainVars>>

\* faulty variant: the number of CPUs is not looked at
ChooseMode_AnyCpus ==
    /\ prog = "vmrg" /\ kpc = "returned"
    /\ files # << >>
    /\ \E p \in BOOLEAN, cpus \in 1 .. MaxCpus :
        /\ parallel' = p
        /\ num_cpus' = cpus
        /\ use_parallel' = (p /\ Len(files) >= MIN_PARALLEL_FILES)
    /\ outfile' = "dir"
    /\ kpc' = "mode"
    /\ all_paths' = << >> /\ valid_files' = << >>
    /\ dtotal' = 0 /\ accumulated' = 0
    /\ fstat' = << >> /\ rejected' = {}
    /\ input_files' = << >> /\ directories' = << >>
    /\ patterns' = << >>
    /\ UNCHANGED <<prog, idx, vd, files, total>>
    /\ UNCHANGED <<compress, no_comment, results, pending, out, total_lines,
                   compressed_size, out_of_order, outcome>>
    /\ UNCHANGED <<compressVars, mainVars>>

\* lines 472-480: files were admitted; the parent directory of the output
\* path is made and the mode is chosen.  The flag and the number of CPUs are
\* read here for the first time, so they are drawn here.  Discovery is over:
\* nothing below reads its lists or asks the file system for a size again,
\* and the record of its answers is dropped.
ChooseMode ==
    /\ prog = "vmrg" /\ kpc = "returned"
    /\ files # << >>
    /\ \E p \in BOOLEAN, cpus \in 1 .. MaxCpus :
        /\ parallel' = p
        /\ num_cpus' = cpus
        /\ use_parallel' = (p /\ Len(files) >= MIN_PARALLEL_FILES /\ cpus > 1)
    /\ outfile' = "dir"
    /\ kpc' = "mode"
    /\ all_paths' = << >> /\ valid_files' = << >>
    /\ dtotal' = 0 /\ accumulated' = 0
    /\ fstat' = << >> /\ rejected' = {}
    /\ input_files' = << >> /\ directories' = << >>
    /\ patterns' = << >>
    /\ UNCHANGED <<prog, idx, vd, files, total>>
    /\ UNCHANGED <<compress, no_comment, results, pending, out, total_lines,
                   compressed_size, out_of_order, outcome>>
    /\ UNCHANGED <<compressVars, mainVars>>

\* lines 482-526: the output is opened, the banners are written and, in
\* parallel mode, the executor is made and one task per file is submitted.
\* The flags -c and -d are read here for the first time, so they are drawn
\* here; the flag -p and the number of CPUs are not read below line 522 and
\* are dropped.
StartMerge ==
    /\ prog = "vmrg" /\ kpc = "mode"
    /\ \E c \in BOOLEAN, d \in BOOLEAN :
        /\ compress' = c
        /\ no_comment' = d
        /\ out' = (IF c THEN <<[t |-> "banner", b |-> "compress"]>> ELSE << >>)
               \o (IF d THEN <<[t |-> "banner", b |-> "no_comment"]>> ELSE << >>)
    /\ outfile' = "open"
    /\ results' = [j \in 1 .. Len(files) |-> None]
    /\ pending' = IF use_parallel THEN 1 .. Len(files) ELSE {}
    /\ kpc' = IF use_parallel THEN "parallel" ELSE "sequential"
    /\ idx' = 1
    /\ total_lines' = 0
    /\ compressed_size' = 0
    /\ out_of_order' = FALSE
    /\ outcome' = [j \in 1 .. Len(files) |-> None]
    /\ parallel' = FALSE /\ num_cpus' = 0
    /\ UNCHANGED <<patterns, prog, input_files, directories, vd, files, total,
                   all_paths, valid_files, dtotal, accumulated, fstat,
                   rejected>>
    /\ UNCHANGED use_parallel
    /\ UNCHANGED <<compressVars, mainVars>>

\* lines 528-533: as_completed yields the future of file j, whose worker
\* read some content or failed
Complete ==
    /\ kpc = "parallel"
    /\ \E j \in pending :
        /\ \/ \E content \in Contents :
                 /\ results' = StoreResult(results, j,
                                           WorkerResult(files[j], content))
                 /\ outcome' = [outcome EXCEPT
                                  ![j] = WorkerResult(files[j], content)]
           \/ UNCHANGED <<results, outcome>>
        /\ pending' = pending \ {j}
        /\ out_of_order' = (out_of_order
                              \/ \E m \in DOMAIN results \ pending : m > j)
    /\ UNCHANGED collectVars
    /\ UNCHANGED <<parallel, num_cpus, outfile>>
    /\ UNCHANGED <<compress, no_comment, use_parallel, out, total_lines,
                   compressed_size>>
    /\ UNCHANGED <<compressVars, mainVars>>

\* faulty variant: the drain starts once the first future was yielded
DrainStart_Early ==
    /\ kpc = "parallel"
    /\ pending # DOMAIN results
    /\ kpc' = "drain"
    /\ idx' = 1
    /\ UNCHANGED <<patterns, prog, input_files, directories, vd, files, total, all_paths,
                   valid_files, dtotal, accumulated, fstat, rejected>>
    /\ UNCHANGED mergeVars
    /\ UNCHANGED <<compressVars, mainVars>>

\* lines 535-538: every future was yielded, the executor is left
DrainStart ==
    /\ kpc = "parallel"
    /\ pending = {}
    /\ kpc' = "drain"
    /\ idx' = 1
    /\ UNCHANGED <<patterns, prog, input_files, directories, vd, files, total, all_paths,
                   valid_files, dtotal, accumulated, fstat, rejected>>
    /\ UNCHANGED mergeVars
    /\ UNCHANGED <<compressVars, mainVars>>

\* lines 540-554: one iteration of the drain
DrainOne ==
    /\ kpc = "drain"
    /\ idx <= Len(results)
    /\ LET result_ == results[idx]
       IN  IF ~result_.ok
           THEN UNCHANGED <<out, total_lines, compressed_size>>
           ELSE /\ out' = out \o (IF idx - 1 > 0 THEN <<Nl, Nl>> ELSE << >>)
                              \o result_.header \o Text(result_.content)
                /\ total_lines' = total_lines + result_.lines
                /\ compressed_size' =
                      IF compress THEN compressed_size + result_.compressed_size
                      ELSE compressed_size
    /\ idx' = idx + 1
    /\ UNCHANGED <<patterns, prog, input_files, directories, kpc, vd, files, total,
                   all_paths, valid_files, dtotal, accumulated, fstat, rejected>>
    /\ UNCHANGED <<parallel, num_cpus, outfile>>
    /\ UNCHANGED <<compress, no_comment, use_parallel, results, pending,
                   out_of_order, outcome>>
    /\ UNCHANGED <<compressVars, mainVars>>

\* the loop of line 540 ends; line 556 and the return of line 621
DrainEnd ==
    /\ kpc = "drain"
    /\ idx > Len(results)
    /\ kpc' = "merged"
    /\ UNCHANGED <<patterns, prog, input_files, directories, idx, vd, files, total,
                   all_paths, valid_files, dtotal, accumulated, fstat, rejected>>
    /\ UNCHANGED mergeVars
    /\ UNCHANGED <<compressVars, mainVars>>

\* lines 561-594: one iteration of the sequential loop; read_file returns
\* some content or None
SeqFile ==
    /\ kpc = "sequential"
    /\ idx <= Len(files)
    /\ LET f    == files[idx]
           head == (IF idx - 1 > 0 THEN <<Nl, Nl>> ELSE << >>)
                      \o <<FileLine(f), Dash, Nl>>
       IN  \/ /\ out' = out \o head
              /\ UNCHANGED <<total_lines, compressed_size, outcome>>
           \/ \E content_bytes_ \in Contents :
                LET processed == IF compress
                                 THEN compress_code(content_bytes_, ExtOf(f.fpath))
                                 ELSE content_bytes_
                    content   == Decode(processed)
                IN  /\ out' = out \o head \o Text(rstrip(content))
                    /\ total_lines' = total_lines + Lines(content)
                    /\ compressed_size' =
                          IF compress THEN compressed_size + Len(processed)
                          ELSE compressed_size
                    /\ outcome' = [outcome EXCEPT
                                     ![idx] = [ok |-> TRUE, content |-> content]]
    /\ idx' = idx + 1
    /\ UNCHANGED <<patterns, prog, input_files, directories, kpc, vd, files, total,
                   all_paths, valid_files, dtotal, accumulated, fstat, rejected>>
    /\ UNCHANGED <<parallel, num_cpus, outfile>>
    /\ UNCHANGED <<compress, no_comment, use_parallel, results, pending,
                   out_of_order>>
    /\ UNCHANGED <<compressVars, mainVars>>

\* the loop of line 561 ends; line 596 and the return of line 621
SeqEnd ==
    /\ kpc = "sequential"
    /\ idx > Len(files)
    /\ kpc' = "merged"
    /\ UNCHANGED <<patterns, prog, input_files, directories, idx, vd, files, total,
                   all_paths, valid_files, dtotal, accumulated, fstat, rejected>>
    /\ UNCHANGED mergeVars
    /\ UNCHANGED <<compressVars, mainVars>>

----------------------------------------------------------------------------
\* merge_files of vibemerge.py around its collect_files.  A block of its
\* output starts with the token
\*   [t |-> "path", rel]   the path of the file from the parent of the
\*                         directory, with its line break

\* vibemerge.py lines 84-91: the directory is there, or ValueError
\* ("Directory not found") is raised
VResolve ==
    /\ prog = "vibemerge" /\ kpc = "vresolve"
    /\ \/ kpc' = "vwalk"
       \/ kpc' = "error"
    /\ UNCHANGED <<patterns, prog, input_files, directories, idx, vd, files,
                   total, all_paths, valid_files, dtotal, accumulated, fstat,
                   rejected>>
    /\ UNCHANGED <<compressVars, mergeVars, mainVars>>

\* vibemerge.py lines 95-96: raise ValueError("No files found")
VNoFiles ==
    /\ prog = "vibemerge" /\ kpc = "returned"
    /\ files = << >>
    /\ kpc' = "error"
    /\ UNCHANGED <<patterns, prog, input_files, directories, idx, vd, files,
                   total, all_paths, valid_files, dtotal, accumulated, fstat,
                   rejected>>
    /\ UNCHANGED <<compressVars, mergeVars, mainVars>>

\* vibemerge.py lines 98-104: the output is opened for writing; its parent
\* directory is not made.  Nothing below asks the file system for a size
\* again, and the record of the answers of discovery is dropped.
VOpen ==
    /\ prog = "vibemerge" /\ kpc = "returned"
    /\ files # << >>
    /\ outfile' = "open"
    /\ out' = << >>
    /\ kpc' = "vmerge"
    /\ idx' = 1
    /\ fstat' = << >> /\ rejected' = {}
    /\ patterns' = << >>
    /\ UNCHANGED <<prog, input_files, directories, vd, files, total,
                   all_paths, valid_files, dtotal, accumulated>>
    /\ UNCHANGED <<compress, no_comment, parallel, num_cpus, use_parallel,
                   results, pending, total_lines, compressed_size,
                   out_of_order, outcome>>
    /\ UNCHANGED <<compressVars, mainVars>>

\* vibemerge.py lines 105-119: one iteration of the loop; the file is read
\* and decoded, with replacement characters on a decoding error, or its open
\* raises an OSError that leaves merge_files
VWriteFile ==
    /\ prog = "vibemerge" /\ kpc = "vmerge"
    /\ idx <= Len(files)
    /\ LET file_path == files[idx].fpath
           head == (IF idx - 1 > 0 THEN <<Nl, Nl>> ELSE << >>)
                      \o <<[t |-> "path", rel |-> Join(file_path),
                                          of |-> file_path], Nl>>
       IN  \/ /\ out' = out \o head
              /\ kpc' = "failed"
              /\ idx' = idx
           \/ \E content \in Contents :
                /\ out' = out \o head \o Text(rstrip(Decode(content)))
                /\ idx' = idx + 1
                /\ kpc' = kpc
    /\ UNCHANGED <<patterns, prog, input_files, directories, vd, files, total,
                   all_paths, valid_files, dtotal, accumulated, fstat,
                   rejected>>
    /\ UNCHANGED <<compress, no_comment, parallel, num_cpus, use_parallel,
                   results, pending, total_lines, compressed_size,
                   out_of_order, outcome, outfile>>
    /\ UNCHANGED <<compressVars, mainVars>>

\* vibemerge.py line 121: the loop ends, the output is closed
VDone ==
    /\ prog = "vibemerge" /\ kpc = "vmerge"
    /\ idx > Len(files)
    /\ kpc' = "vmerged"
    /\ UNCHANGED <<patterns, prog, input_files, directories, idx, vd, files,
                   total, all_paths, valid_files, dtotal, accumulated, fstat,
                   rejected>>
    /\ UNCHANGED <<compressVars, mergeVars, mainVars>>

----------------------------------------------------------------------------
\* main of vmrg.py, from the call of merge_files in its try block (line 661)

\* lines 337-354 and 458-461: resolve_paths finds every path of the command
\* line, or raises ValueError for one that does not exist or is neither a
\* file nor a directory
ResolvePaths ==
    /\ prog = "vmrg" /\ kpc = "resolve"
    /\ \/ kpc' = "validate"
       \/ kpc' = "error"
    /\ UNCHANGED <<patterns, prog, input_files, directories, idx, vd, files,
                   total, all_paths, valid_files, dtotal, accumulated, fstat,
                   rejected>>
    /\ UNCHANGED <<compressVars, mergeVars, mainVars>>

\* lines 413-419 with 208-209: the interrupt is raised while is_text has the
\* file open; its bare except catches it, the file counts as non-text and
\* the loop goes on
ValidateFileInterrupted ==
    /\ prog = "vmrg" /\ kpc = "validate"
    /\ idx <= Len(input_files)
    /\ idx' = idx + 1
    /\ interrupted' = TRUE
    /\ UNCHANGED <<patterns, prog, input_files, directories, kpc, vd, files,
                   total, all_paths, valid_files, dtotal, accumulated, fstat,
                   rejected>>
    /\ UNCHANGED <<compressVars, mergeVars, status>>

\* lines 378-386 with 208-209: the same in the scan of the walked candidates
ScanFileInterrupted ==
    /\ prog = "vmrg" /\ kpc = "scan"
    /\ idx <= Len(all_paths)
    /\ ~should_ignore(all_paths[idx].fpath, all_paths[idx].basedir, patterns)
    /\ idx' = idx + 1
    /\ interrupted' = TRUE
    /\ UNCHANGED <<patterns, prog, input_files, directories, kpc, vd, files,
                   total, all_paths, valid_files, dtotal, accumulated, fstat,
                   rejected>>
    /\ UNCHANGED <<compressVars, mergeVars, status>>

\* lines 561-577 with 291-292: the interrupt is raised inside read_file; its
\* bare except catches it and returns None, and the file is skipped
SeqFileInterrupted ==
    /\ kpc = "sequential"
    /\ idx <= Len(files)
    /\ out' = out \o (IF idx - 1 > 0 THEN <<Nl, Nl>> ELSE << >>)
                  \o <<FileLine(files[idx]), Dash, Nl>>
    /\ idx' = idx + 1
    /\ interrupted' = TRUE
    /\ UNCHANGED <<patterns, prog, input_files, directories, kpc, vd, files,
                   total, all_paths, valid_files, dtotal, accumulated, fstat,
                   rejected>>
    /\ UNCHANGED <<parallel, num_cpus, outfile>>
    /\ UNCHANGED <<compress, no_comment, use_parallel, results, pending,
                   total_lines, compressed_size, out_of_order, outcome>>
    /\ UNCHANGED <<compressVars, status>>

\* lines 673-675: the interrupt is raised anywhere else in merge_files and
\* reaches main
Interrupt ==
    /\ prog = "vmrg"
    /\ kpc \in {"resolve", "validate", "dirs", "scan", "combine", "trim",
                "sort", "returned", "mode", "parallel", "drain",
                "sequential"}
    /\ interrupted' = TRUE
    /\ status' = 130
    /\ kpc' = "exit"
    /\ UNCHANGED <<patterns, prog, input_files, directories, idx, vd, files,
                   total, all_paths, valid_files, dtotal, accumulated, fstat,
                   rejected>>
    /\ UNCHANGED <<compressVars, mergeVars>>

\* line 671: merge_files returned
MainReturn ==
    /\ prog = "vmrg" /\ kpc = "merged"
    /\ status' = 0
    /\ kpc' = "exit"
    /\ UNCHANGED <<patterns, prog, input_files, directories, idx, vd, files,
                   total, all_paths, valid_files, dtotal, accumulated, fstat,
                   rejected>>
    /\ UNCHANGED <<compressVars, mergeVars, interrupted>>

\* lines 677-682: merge_files raised an Exception
MainFatal ==
    /\ prog = "vmrg" /\ kpc = "error"
    /\ status' = 1
    /\ kpc' = "exit"
    /\ UNCHANGED <<patterns, prog, input_files, directories, idx, vd, files,
                   total, all_paths, valid_files, dtotal, accumulated, fstat,
                   rejected>>
    /\ UNCHANGED <<compressVars, mergeVars, interrupted>>

\* line 621: return outpath, len(files), total_size,
\*                  compressed_size if compress else 0, total_lines
MergeResult ==
    [file_count |-> Len(files),
     total_size |-> total,
     compressed_size |-> IF compress THEN compressed_size ELSE 0,
     total_lines |-> total_lines]

----------------------------------------------------------------------------
\* Specifications

\* no scan is running
IdleCompress ==
    /\ content_bytes = << >>
    /\ ext = ""
    /\ i = 0
    /\ result = << >>
    /\ cpc = "idle"
    /\ end_delim = << >>
    /\ src = << >>
    /\ regions = {}
    /\ reg_start = 0
    /\ esc = {}
    /\ visited = {}

\* no run is under way
IdleRun ==
    /\ prog = "none"
    /\ patterns = << >>
    /\ input_files = << >>
    /\ directories = << >>
    /\ kpc = "idle"
    /\ idx = 1
    /\ vd = 1
    /\ files = << >>
    /\ total = 0
    /\ all_paths = << >>
    /\ valid_files = << >>
    /\ dtotal = 0
    /\ accumulated = 0
    /\ fstat = << >>
    /\ rejected = {}
    /\ compress = FALSE
    /\ no_comment = FALSE
    /\ parallel = FALSE
    /\ num_cpus = 0
    /\ use_parallel = FALSE
    /\ results = << >>
    /\ pending = {}
    /\ out = << >>
    /\ total_lines = 0
    /\ compressed_size = 0
    /\ out_of_order = FALSE
    /\ outcome = << >>
    /\ outfile = "untouched"
    /\ status = -1
    /\ interrupted = FALSE

\* compress_code is called: the state at line 220, before the first iteration
InitCompress ==
    /\ ext \in Profiles
    /\ content_bytes \in Inputs(ext)
    /\ i = 0
    /\ result = << >>
    /\ cpc = "scan"
    /\ end_delim = << >>
    /\ src = << >>
    /\ regions = {}
    /\ reg_start = 0
    /\ esc = {}
    /\ visited = {}
    /\ IdleRun

NextCompress ==
    \/ Escape
    \/ StringOpen
    \/ HeredocCopy
    \/ HeredocExit
    \/ StringClose
    \/ StringEscape
    \/ StringCopy
    \/ StringExit
    \/ DropWhitespace
    \/ CopyByte
    \/ Return

SpecCompress == InitCompress /\ [][NextCompress]_vars

\* the same scan as a running program: the interpreter always takes the next
\* step of the loop while there is one
SpecCompressLive == SpecCompress /\ WF_vars(NextCompress)

\* the explicit files of a command line: any of ExplicitFiles, in any order
ExplicitLists == UNION {Perms(S) : S \in SUBSET ExplicitFiles}

\* a run of vmrg.py or of vibemerge.py at the call of merge_files; the two
\* lists hold the paths of the command line, at least one, as resolve_paths
\* sorts them into files and directories when it finds them all
InitRun ==
    /\ IdleCompress
    /\ prog \in {"vmrg", "vibemerge"}
    /\ patterns \in {<< >>} \cup {load_patterns(f) : f \in IgnoreFiles}
    /\ IF prog = "vmrg"
       THEN /\ input_files \in ExplicitLists
            /\ directories \in {<< >>, <<Root>>}
            /\ input_files # << >> \/ directories # << >>
            /\ kpc = "resolve"
       ELSE /\ input_files = << >>
            /\ directories = <<Root>>
            /\ kpc = "vresolve"
    /\ idx = 1
    /\ vd = 1
    /\ files = << >>
    /\ total = 0
    /\ all_paths = << >>
    /\ valid_files = << >>
    /\ dtotal = 0
    /\ accumulated = 0
    /\ fstat = << >>
    /\ rejected = {}
    /\ compress = FALSE
    /\ no_comment = FALSE
    /\ parallel = FALSE
    /\ num_cpus = 0
    /\ use_parallel = FALSE
    /\ results = << >>
    /\ pending = {}
    /\ out = << >>
    /\ total_lines = 0
    /\ compressed_size = 0
    /\ out_of_order = FALSE
    /\ outcome = << >>
    /\ outfile = "untouched"
    /\ status = -1
    /\ interrupted = FALSE

NextRun ==
    \/ ResolvePaths
    \/ VResolve
    \/ ValidateFile
    \/ ValidateEnd
    \/ NoDirectories
    \/ Walk
    \/ ScanFile
    \/ ScanEnd
    \/ Combine
    \/ TrimFile
    \/ SortReturn
    \/ VFile
    \/ VDirEnd
    \/ VReturn
    \/ NoFilesFound
    \/ ChooseMode
    \/ StartMerge
    \/ Complete
    \/ DrainStart
    \/ DrainOne
    \/ DrainEnd
    \/ SeqFile
    \/ SeqEnd
    \/ VNoFiles
    \/ VOpen
    \/ VWriteFile
    \/ VDone

SpecRun == InitRun /\ [][NextRun]_vars

\* a run of main of vmrg.py at the call of merge_files (line 661), on one
\* explicit file, the directory root or both, without ignore file
InitMain ==
    /\ IdleCompress
    /\ prog = "vmrg"
    /\ patterns = << >>
    /\ input_files \in {<< >>, << <<3, 1>> >>}
    /\ directories \in {<< >>, <<Root>>}
    /\ input_files # << >> \/ directories # << >>
    /\ kpc = "resolve"
    /\ idx = 1
    /\ vd = 1
    /\ files = << >>
    /\ total = 0
    /\ all_paths = << >>
    /\ valid_files = << >>
    /\ dtotal = 0
    /\ accumulated = 0
    /\ fstat = << >>
    /\ rejected = {}
    /\ compress = FALSE
    /\ no_comment = FALSE
    /\ parallel = FALSE
    /\ num_cpus = 0
    /\ use_parallel = FALSE
    /\ results = << >>
    /\ pending = {}
    /\ out = << >>
    /\ total_lines = 0
    /\ compressed_size = 0
    /\ out_of_order = FALSE
    /\ outcome = << >>
    /\ outfile = "untouched"
    /\ status = -1
    /\ interrupted = FALSE

NextMain ==
    \/ ResolvePaths
    \/ ValidateFile
    \/ ValidateFileInterrupted
    \/ ValidateEnd
    \/ NoDirectories
    \/ Walk
    \/ ScanFile
    \/ ScanFileInterrupted
    \/ ScanEnd
    \/ Combine
    \/ TrimFile
    \/ SortReturn
    \/ NoFilesFound
    \/ ChooseMode
    \/ StartMerge
    \/ Complete
    \/ DrainStart
    \/ DrainOne
    \/ DrainEnd
    \/ SeqFile
    \/ SeqFileInterrupted
    \/ SeqEnd
    \/ Interrupt
    \/ MainReturn
    \/ MainFatal

SpecMain == InitMain /\ [][NextMain]_vars

----------------------------------------------------------------------------
\* Properties of compress_code

\* the bytes the specification calls insignificant whitespace
WsBytes == {9, 10, 13, 32}

\* input positions that were copied to the output
KeptPositions == Range(src)

\* input positions inside a string literal the scan has recorded
LiteralPositions == UNION {r.from .. r.to : r \in regions}

\* the output holds the input bytes of positions a..b, unchanged, in order
\* and next to one another
CopiedVerbatim(a, b) ==
    \E o \in 0 .. Len(result) :
        \A p \in a .. b :
            /\ o + (p - a) + 1 <= Len(result)
            /\ src[o + (p - a) + 1] = p
            /\ result[o + (p - a) + 1] = At(content_bytes, p)

\* C1: every byte of a string literal region (start delimiter, interior, end
\* delimiter) reaches the output unchanged and in order, and the .py line
\* x = "a  b" compresses to x="a  b".
C1_StringLiteralVerbatim ==
    /\ \A r \in regions : r.closed => CopiedVerbatim(r.from, r.to)
    /\ (cpc = "done" /\ ext = ".py" /\ content_bytes = ScenarioInput)
          => result = <<120, 61, 34, 97, 32, 32, 98, 34>>

\* a finished scan with a closed string that holds whitespace, and whitespace
\* outside it that was dropped
C1_Witness ==
    /\ cpc = "done"
    /\ \E r \in regions :
          /\ r.closed
          /\ \E p \in r.from .. r.to : At(content_bytes, p) \in WsBytes
    /\ \E p \in 0 .. n - 1 :
          /\ p \notin LiteralPositions
          /\ At(content_bytes, p) \in WsBytes
          /\ p \notin KeptPositions

\* positions at which the scan, outside any string, met the start delimiter
\* of a configured comment
CommentMeets ==
    {p \in visited :
        /\ ~IsEscape(p)
        /\ MatchingStrings(p) = {}
        /\ \E c \in DOMAIN config(ext).comments :
              Matches(config(ext).comments[c][1], p)}

\* the comment region that starts at p: through its end delimiter (the line
\* break of a line comment), or through the end of the input without one
CommentRegionEnd(p) ==
    LET cs == config(ext).comments
        c  == CHOOSE d \in DOMAIN cs :
                 /\ Matches(cs[d][1], p)
                 /\ \A e \in DOMAIN cs : Matches(cs[e][1], p) => d <= e
        ends == {q \in p + Len(cs[c][1]) .. n - 1 : Matches(cs[c][2], q)}
    IN  IF ends = {} THEN n - 1
        ELSE (CHOOSE q \in ends : \A q2 \in ends : q <= q2) + Len(cs[c][2]) - 1

\* C2: a comment met outside a string is copied whole and verbatim, with its
\* whitespace (stated for the first comment of the input).
C2_CommentVerbatim ==
    (cpc = "done" /\ CommentMeets # {}) =>
        LET p == CHOOSE q \in CommentMeets : \A q2 \in CommentMeets : q <= q2
        IN  CopiedVerbatim(p, CommentRegionEnd(p))

\* C7: the output is a subsequence of the input in the original order, and
\* every omitted input byte is a space, tab, line feed or carriage return.
C7_SubsequenceOfInput ==
    /\ Len(src) = Len(result)
    /\ \A k \in DOMAIN result :
          /\ src[k] \in 0 .. n - 1
          /\ result[k] = At(content_bytes, src[k])
    /\ \A k \in 1 .. Len(src) - 1 : src[k] < src[k + 1]
    /\ \A p \in 0 .. n - 1 :
          (p < i /\ p \notin KeptPositions) => At(content_bytes, p) \in WsBytes

\* a finished scan that kept some bytes and omitted others
C7_Witness ==
    /\ cpc = "done"
    /\ result # << >>
    /\ \E p \in 0 .. n - 1 : p \notin KeptPositions

\* C8 as stated: every whitespace byte of the output lies inside a literal
\* region (or is its terminator), and no two adjacent ones lie outside.
C8_NoWhitespaceOutsideLiterals ==
    cpc = "done" =>
        /\ \A k \in DOMAIN result :
              result[k] \in WsBytes => src[k] \in LiteralPositions
        /\ \A k \in 1 .. Len(result) - 1 :
              (result[k] \in WsBytes /\ result[k + 1] \in WsBytes)
                 => (src[k] \in LiteralPositions
                       \/ src[k + 1] \in LiteralPositions)

\* C8 as amended: every whitespace byte of the output lies inside a literal
\* region (or is its terminator) or is the byte that follows a backslash
\* copied by the escape rule outside strings; no two adjacent whitespace
\* bytes lie outside literal regions.
C8_WhitespaceLiteralOrEscaped ==
    cpc = "done" =>
        /\ \A k \in DOMAIN result :
              result[k] \in WsBytes
                 => (src[k] \in LiteralPositions \/ src[k] \in esc)
        /\ \A k \in 1 .. Len(result) - 1 :
              (result[k] \in WsBytes /\ result[k + 1] \in WsBytes)
                 => (src[k] \in LiteralPositions
                       \/ src[k + 1] \in LiteralPositions)

\* a finished scan whose output has an escaped whitespace byte outside any
\* string, whitespace inside a string, and dropped whitespace
C8_Witness ==
    /\ cpc = "done"
    /\ \E k \in DOMAIN result :
          result[k] \in WsBytes /\ src[k] \in esc
    /\ \E k \in DOMAIN result :
          result[k] \in WsBytes /\ src[k] \in LiteralPositions
    /\ \E p \in 0 .. n - 1 : p \notin KeptPositions

\* C9: when the input ends before the end delimiter of an open string, every
\* remaining byte is copied verbatim, trailing whitespace included, whatever
\* the length of the end delimiter.
C9_UnterminatedCopiedVerbatim ==
    cpc = "done" =>
        \A r \in regions : ~r.closed => CopiedVerbatim(r.from, n - 1)

\* the delimiter pair of the string that starts at position p
PairAt(p) == config(ext).strings[FirstMatch(p)]

\* the first position after the start delimiter of region r
Interior(r) == r.from + Len(PairAt(r.from)[1])

\* the number of backslashes right before position q, from position s on
RECURSIVE BackslashRun(_, _)
BackslashRun(q, s) ==
    IF q > s /\ At(content_bytes, q - 1) = 92
    THEN 1 + BackslashRun(q - 1, s)
    ELSE 0

\* the byte at q follows an unescaped backslash of the string interior
Escaped(q, s) == BackslashRun(q, s) % 2 = 1

\* the positions of the interior of r at which its end delimiter stands
EndsIn(r) ==
    {q \in Interior(r) .. n - 1 : Matches(PairAt(r.from)[2], q)}

UnescapedEndsIn(r) == {q \in EndsIn(r) : ~Escaped(q, Interior(r))}

\* C19: inside a string an end delimiter right after an unescaped backslash
\* does not terminate it, the backslash and the next byte being copied as a
\* pair; an end delimiter after an escaped backslash does: the string ends
\* with the first end delimiter of its interior that an even number of
\* backslashes precedes, and is left open when there is none.
C19_EscapedEndDelimiter ==
    \A r \in regions :
        PairAt(r.from)[2] # << >> =>
            /\ IF UnescapedEndsIn(r) = {} THEN ~r.closed
               ELSE /\ r.closed
                    /\ \A q \in UnescapedEndsIn(r) :
                          r.to <= q + Len(PairAt(r.from)[2]) - 1
                    /\ r.to - Len(PairAt(r.from)[2]) + 1 \in UnescapedEndsIn(r)
            /\ \A q \in EndsIn(r) :
                  (Escaped(q, Interior(r)) /\ q <= r.to)
                     => CopiedVerbatim(q - 1, q)

\* a finished scan with a string that ends right after two backslashes and a
\* string that holds an escaped end delimiter
C19_Witness ==
    /\ cpc = "done"
    /\ \E r \in regions :
          /\ r.closed
          /\ BackslashRun(r.to - Len(PairAt(r.from)[2]) + 1, Interior(r)) = 2
    /\ \E r \in regions :
          /\ r.closed
          /\ \E q \in EndsIn(r) : Escaped(q, Interior(r)) /\ q < r.to

\* C20: outside strings a backslash with a next byte is copied together
\* with that byte and the scan advances two positions: the next byte opens
\* no string and is kept also when it is whitespace; a backslash that is the
\* last byte is copied alone.
C20_NormalBackslash ==
    \A p \in visited :
        (At(content_bytes, p) = 92 /\ p < i) =>
            IF p + 1 < n
            THEN /\ CopiedVerbatim(p, p + 1)
                 /\ i >= p + 2
                 /\ p + 1 \notin visited
                 /\ \A r \in regions : r.from # p + 1
                 /\ cpc \in {"string", "heredoc"} => reg_start # p + 1
            ELSE CopiedVerbatim(p, p)

\* a finished scan that met, outside strings, a backslash before whitespace,
\* a backslash before a start delimiter and a backslash as the last byte
C20_Witness ==
    /\ cpc = "done"
    /\ \E p \in visited :
          At(content_bytes, p) = 92 /\ p + 1 < n
             /\ At(content_bytes, p + 1) \in WsBytes
    /\ \E p \in visited :
          At(content_bytes, p) = 92 /\ p + 1 < n
             /\ MatchingStrings(p + 1) # {}
    /\ n - 1 \in visited /\ At(content_bytes, n - 1) = 92

\* a is a proper prefix of b
ProperPrefix(a, b) == Len(a) < Len(b) /\ SubSeq(b, 1, Len(a)) = a

\* no start delimiter of the list is a proper prefix of one listed after it
LongerFirst(pairs) ==
    \A a, b \in DOMAIN pairs : a < b => ~ProperPrefix(pairs[a][1], pairs[b][1])

\* C21: in every profile no string start delimiter is a proper prefix of one
\* listed after it, likewise for the comment start delimiters, and the pair
\* the scan selects has the longest start delimiter that matches where the
\* string starts (""" before " for .py).
C21_LongestDelimiterFirst ==
    /\ \A e \in DOMAIN LANGUAGE_CONFIGS :
          /\ LongerFirst(LANGUAGE_CONFIGS[e].strings)
          /\ LongerFirst(LANGUAGE_CONFIGS[e].comments)
    /\ cpc \in {"string", "heredoc"} =>
          \E d \in MatchingStrings(reg_start) :
              /\ config(ext).strings[d][2] = end_delim
              /\ \A d2 \in MatchingStrings(reg_start) :
                    Len(config(ext).strings[d2][1])
                       <= Len(config(ext).strings[d][1])

\* the scan is in a .py string opened where both """ and " match
C21_Witness ==
    /\ cpc = "string"
    /\ ext = ".py"
    /\ Cardinality(MatchingStrings(reg_start)) >= 2
    /\ Len(end_delim) = 3

\* a step of the scan that is an iteration of the outer loop or of an inner
\* string loop moves the position forward and keeps it within the input; the
\* other steps are the loop exits, which leave position and output alone
Advances ==
    \/ i' > i /\ i' <= n
    \/ i' = i /\ cpc' # cpc /\ result' = result

\* C24: for every input and profile (PHP heredoc, unterminated literals and a
\* trailing backslash included) the scan of compress_code terminates: the
\* position strictly increases on every iteration of the outer loop and of
\* the inner string loops, and never exceeds the input length.
C24_ScanTerminates ==
    /\ [](i <= n)
    /\ [][Advances]_vars
    /\ <>(cpc = "done")

\* a finished PHP scan that went through a heredoc and then through a
\* literal left open whose last byte, the last of the input, is a backslash
C24_Witness ==
    /\ cpc = "done"
    /\ ext = ".php"
    /\ \E r \in regions : PairAt(r.from)[2] = << >>
    /\ \E r \in regions : ~r.closed
    /\ At(content_bytes, n - 1) = 92
    /\ i = n

----------------------------------------------------------------------------
\* Properties of discovery and of the merge

\* the positions of out that hold a FILE line
FileLines == {j \in DOMAIN out : out[j].t = "file"}

\* C3: in both modes the file blocks of the output are in ascending order of
\* the files' full paths.
C3_BlocksInPathOrder ==
    \A a, b \in FileLines : a < b => ~PathLess(out[b].of, out[a].of)

\* a finished parallel merge of four blocks whose tasks completed out of
\* index order
C3_Witness ==
    /\ kpc = "merged"
    /\ use_parallel
    /\ out_of_order
    /\ Cardinality(FileLines) >= MIN_PARALLEL_FILES

\* the document a parallel run writes for the per-file outcomes, taken in
\* the order of the sorted file list
RECURSIVE BlocksUpTo(_)
BlocksUpTo(j) ==
    IF j = 0 THEN << >>
    ELSE BlocksUpTo(j - 1) \o
         (IF outcome[j].ok
          THEN (IF j > 1 THEN <<Nl, Nl>> ELSE << >>)
                  \o outcome[j].header \o Text(outcome[j].content)
          ELSE << >>)

Banners ==
    (IF compress THEN <<[t |-> "banner", b |-> "compress"]>> ELSE << >>)
       \o (IF no_comment THEN <<[t |-> "banner", b |-> "no_comment"]>> ELSE << >>)

\* C4: in parallel mode the bytes written depend on the sorted file list and
\* the per-file results only, not on the order in which the tasks completed.
C4_CompletionOrderIrrelevant ==
    (kpc = "merged" /\ use_parallel) => out = Banners \o BlocksUpTo(Len(outcome))

\* a finished parallel merge whose tasks completed out of index order and
\* returned at least two different results
C4_Witness ==
    /\ kpc = "merged"
    /\ use_parallel
    /\ out_of_order
    /\ \E a, b \in DOMAIN outcome :
          /\ outcome[a].ok /\ outcome[b].ok
          /\ outcome[a].content # outcome[b].content

\* the states of discovery, the returned list included
Discovering ==
    kpc \in {"validate", "dirs", "scan", "combine", "trim", "sort", "vwalk",
             "returned"}

\* the byte budget of the program that runs
Budget == IF prog = "vibemerge" THEN max_size ELSE MAX_TOTAL_SIZE

RECURSIVE SizeSum(_)
SizeSum(fs) ==
    IF fs = << >> THEN 0 ELSE fstat[Head(fs).fpath].size + SizeSum(Tail(fs))

\* C5: in every state of discovery and in the returned list the sizes of the
\* admitted files sum to at most the byte budget, in vmrg.py (explicit files
\* and directories together) and in vibemerge.py.
C5_BudgetRespected ==
    Discovering =>
        /\ SizeSum(files) <= Budget
        /\ SizeSum(valid_files) <= Budget
        /\ total <= Budget
        /\ kpc = "returned" => total = SizeSum(files)

\* vmrg.py returns explicit and directory files together, some directory
\* file having been turned away for the budget
C5_Witness ==
    /\ kpc = "returned" /\ prog = "vmrg"
    /\ rejected # {}
    /\ \E a, b \in DOMAIN files :
          /\ files[a].basedir # Root
          /\ files[b].fpath \in DirFiles(Root) \cup DirFiles(SubDir)
    /\ total = MAX_TOTAL_SIZE

\* C6: the admitted files are a prefix of the candidates in path order: no
\* admitted file sorts after a file that was turned away for the budget.
C6_AdmittedIsSortedPrefix ==
    kpc = "returned" =>
        \A r \in rejected : \A j \in DOMAIN files : ~PathLess(r, files[j].fpath)

\* C10: in both modes every file block starts with a line of 80 dashes, the
\* FILE line, a second line of 80 dashes and a blank line.
C10_HeaderInBothModes ==
    \A j \in FileLines :
        /\ j > 1
        /\ out[j - 1].t = "dash"
        /\ j + 2 <= Len(out)
        /\ out[j + 1].t = "dash"
        /\ out[j + 2].t = "nl"

\* the content pieces of the output: what was written after a header
ContentPieces == {j \in DOMAIN out : out[j].t = "text"}

\* C11: in both modes the content written for a file has its trailing
\* whitespace removed: it never ends in a space, a tab or a line break.
C11_ContentTrimmed ==
    \A j \in ContentPieces : out[j].s[Len(out[j].s)] \notin {32, 9, 10, 13}

\* the positions of out at which a file block starts: its FILE line, or the
\* line of dashes above it
BlockStarts ==
    {j \in DOMAIN out :
        \/ out[j].t = "dash" /\ j + 1 \in FileLines
        \/ out[j].t = "file" /\ (j = 1 \/ out[j - 1].t # "dash")}

\* the separators of out: two line breaks right before a block start
Separators ==
    {j \in DOMAIN out :
        /\ j + 2 \in BlockStarts
        /\ out[j].t = "nl" /\ out[j + 1].t = "nl"}

\* C12: the separators of a finished run number one less than the written
\* file blocks, and none comes before the first block, also when files
\* failed to be read.
C12_SeparatorsBetweenBlocks ==
    (kpc = "merged" /\ FileLines # {}) =>
        /\ Cardinality(Separators) = Cardinality(FileLines) - 1
        /\ \A s \in Separators : \E b \in BlockStarts : b < s

\* the files whose read and processing succeeded
Succeeded == {j \in DOMAIN outcome : outcome[j].ok}

\* C13: a file whose read or processing fails leaves nothing in the output:
\* a finished run has written one FILE line per file that succeeded, in
\* both modes.
C13_FailedFileLeavesNothing ==
    kpc = "merged" => Cardinality(FileLines) = Cardinality(Succeeded)

\* C14: the file count merge_files returns is the number of files whose
\* block was written, the failed files not counted.
C14_ReportedCountReduced ==
    kpc = "merged" => MergeResult.file_count = Cardinality(Succeeded)

\* the entries admitted so far, and those among them a directory walk found
Admitted == Range(files) \cup Range(valid_files)

WalkAdmitted ==
    Range(valid_files) \cup
    (IF prog = "vibemerge" \/ input_files = << >> THEN Range(files) ELSE {})

\* the per-file cap of the program that runs
Cap == IF prog = "vibemerge" THEN VIBE_MAX_FILE ELSE MAX_FILE_SIZE

\* the window C15 names holds a null byte: the whole file when it is smaller
\* than 1 KiB, its first 8 KiB otherwise
NulInWindow(st) ==
    IF st.small THEN st.nul # "none" ELSE st.nul \in {"1k", "8k"}

\* C15: no admitted file is empty, over the per-file cap, unreadable, or has
\* a null byte in its sampled window (the whole file below 1 KiB, the first
\* 8 KiB otherwise); a walk without ignore patterns that the budget did not
\* cut short admits exactly the files that pass.
C15_OnlyTextAdmitted ==
    Discovering =>
        /\ \A f \in Admitted :
              LET st == fstat[f.fpath]
              IN  /\ ~st.err
                  /\ st.size # 0
                  /\ st.size <= Cap
                  /\ ~NulInWindow(st)
        /\ (kpc = "returned" /\ input_files = << >> /\ patterns = << >>
               /\ rejected = {})
             => \A p \in DOMAIN fstat :
                   (~fstat[p].err /\ fstat[p].size # 0 /\ fstat[p].size <= Cap
                      /\ ~NulInWindow(fstat[p]))
                     => \E f \in Admitted : f.fpath = p

\* C16: a file found by a directory walk is admitted only if no loaded
\* pattern matches its name or its path relative to the walked root, and
\* with no pattern loaded every candidate reaches the classifier.
C16_IgnoredNeverAdmitted ==
    Discovering =>
        /\ \A f \in WalkAdmitted : \A j \in DOMAIN patterns :
              /\ ~fnmatch(Name(f.fpath), patterns[j])
              /\ ~fnmatch(Rel(f.fpath, Root), patterns[j])
        /\ (patterns = << >> /\ kpc = "scan")
             => \A k \in 1 .. idx - 1 : all_paths[k].fpath \in DOMAIN fstat
        /\ (patterns = << >> /\ kpc = "vwalk")
             => \A d \in 1 .. Len(VWalk) : \A k \in DOMAIN VWalk[d] :
                   (/\ d < vd \/ (d = vd /\ k < idx)
                    /\ ~startswith_dot(Name(VWalk[d][k]))
                    /\ rejected = {})
                     => VWalk[d][k] \in DOMAIN fstat

\* a walk with patterns loaded has returned a.py of the root, and has put
\* neither s.log (matched by name) nor sub/a.py (matched by relative path)
\* before the classifier
C16_Witness ==
    /\ kpc = "returned"
    /\ patterns # << >>
    /\ \E f \in WalkAdmitted : f.fpath = <<2, 1>>
    /\ <<2, 3>> \notin DOMAIN fstat
    /\ <<2, 4, 1>> \notin DOMAIN fstat

\* C17: no file admitted from a directory walk has, below the walked root,
\* a directory component or a file name that begins with '.'.
C17_NoHiddenAdmitted ==
    Discovering =>
        \A f \in WalkAdmitted :
            \A k \in Len(f.basedir) + 1 .. Len(f.fpath) :
                ~startswith_dot(NameOf(f.fpath[k]))

\* a walk has returned a file of the root and a file of the subdirectory,
\* each of which has a hidden file and a hidden directory beside it
C17_Witness ==
    /\ kpc = "returned"
    /\ \E f \in WalkAdmitted : f.fpath = <<2, 1>>
    /\ \E f \in WalkAdmitted : f.fpath = <<2, 4, 1>>
    /\ \E d \in {Root, SubDir} :
          /\ \E sd \in SubDirs(d) : startswith_dot(Name(sd))
          /\ \E fl \in DirFiles(d) : startswith_dot(Name(fl))

\* C18: main ends with the status 0 when the merge completed, 130 when a
\* user interrupt occurred at any point of the run, and 1 for any other
\* failure, an empty admitted set among them; no other status is returned.
C18_ExitStatus ==
    kpc = "exit" =>
        /\ status \in {0, 1, 130}
        /\ status = 130 <=> interrupted
        /\ (~interrupted /\ files = << >>) => status = 1
        /\ status = 0 => files # << >>


\* what the drain has written once it is past slot j of the result buffer
RECURSIVE Drained(_)
Drained(j) ==
    IF j = 0 THEN << >>
    ELSE Drained(j - 1) \o
         (IF results[j].ok
          THEN (IF j > 1 THEN <<Nl, Nl>> ELSE << >>)
                  \o results[j].header \o Text(results[j].content)
          ELSE << >>)

\* the parallel branch is under way
InParallel == kpc \in {"parallel", "drain"}

\* a filled slot holds the result of the file at its own index, whose task
\* has completed; no block is in the output while a task is pending; the
\* drain has written the filled slots below its position, in index order
ParallelBuffer ==
    InParallel =>
        /\ \A j \in DOMAIN results :
              results[j].ok => /\ j \notin pending
                               /\ results[j].header[2] = FileLine(files[j])
        /\ pending # {} => FileLines = {}
        /\ kpc = "parallel" => FileLines = {}
        /\ kpc = "drain" => out = Banners \o Drained(idx - 1)

\* a slot is written when its task completes and never again; the drain
\* moves from one slot to the next and leaves the buffer alone
ParallelStep ==
    (InParallel /\ kpc' # "exit") =>
        /\ \A j \in DOMAIN results :
              results'[j] # results[j] => j \in pending /\ j \notin pending'
        /\ pending' \subseteq pending
        /\ kpc = "drain" =>
              /\ results' = results
              /\ \/ kpc' = "drain" /\ idx' = idx + 1
                 \/ kpc' = "merged" /\ idx > Len(results) /\ out' = out

\* C22: in parallel mode each task's result is stored at the index of its
\* file in the sorted list, each slot is written at most once, no file block
\* is written before every submitted task has completed, and the drain is a
\* single pass in ascending index order.
C22_BufferedThenDrained == []ParallelBuffer /\ [][ParallelStep]_vars

\* a drain under way, past a filled and an empty slot, of results that were
\* stored out of index order
C22_Witness ==
    /\ kpc = "drain"
    /\ idx > 2
    /\ idx <= Len(results)
    /\ out_of_order
    /\ \E a, b \in 1 .. (idx - 1) : results[a].ok /\ ~results[b].ok

\* what the claim says of the mode: parallel when -p was given, at least four
\* files were admitted and more than one CPU is there
ParallelExpected == parallel /\ Len(files) >= 4 /\ num_cpus > 1

\* the step that leaves the choice of line 480 enters the mode the claim
\* names, and a run that is in one mode never enters the other
ModeStep ==
    /\ (kpc = "mode" /\ kpc' # "exit") =>
          /\ kpc' \in {"parallel", "sequential"}
          /\ kpc' = "parallel" <=> ParallelExpected
          /\ ~parallel => kpc' = "sequential"
    /\ InParallel => kpc' # "sequential"
    /\ kpc = "sequential" => kpc' \notin {"parallel", "drain"}
    /\ kpc' = "parallel" => kpc \in {"mode", "parallel"}
    /\ kpc' = "sequential" => kpc \in {"mode", "sequential"}

\* the mode a run is or was in is the chosen one, and a sequential run
\* leaves the result buffer and the futures alone
OneMode ==
    /\ InParallel => use_parallel
    /\ kpc = "sequential" => ~use_parallel
    /\ (kpc \in {"sequential", "merged"} /\ ~use_parallel) =>
          /\ pending = {}
          /\ \A j \in DOMAIN results : ~results[j].ok

\* C23: merge_files uses parallel mode exactly when -p was given, at least 4
\* files were admitted and more than one CPU is available, sequential mode
\* otherwise, and exactly one of the two modes runs in a run.
C23_ModeChoice == []OneMode /\ [][ModeStep]_vars

\* the choice of a run with -p, four files and more than one CPU
C23_Witness ==
    /\ kpc = "mode"
    /\ ParallelExpected
    /\ use_parallel

\* the run failed before processing started: resolve_paths or the directory
\* test raised, or discovery admitted no file
FailedEarly == kpc = "error"

\* C25: when a run fails before processing starts (a path does not exist or
\* is of invalid type, or no file is admitted) the output file is neither
\* created nor truncated, its parent directory is not made and no banner is
\* written; the output path is touched only for a non-empty list of files.
C25_OutputUntouchedOnEarlyFailure ==
    /\ FailedEarly => outfile = "untouched" /\ out = << >>
    /\ outfile # "untouched" => files # << >>

\* a run that failed after a discovery that looked at files and admitted none
C25_Witness ==
    /\ FailedEarly
    /\ fstat # << >>
    /\ files = << >>
====
